---- MODULE Spec2Model ----
(***************************************************************************)
(* hypr-plasmoid (src/src/main.rs): the visibility orchestrator for        *)
(* plasmoid widget windows on Hyprland.                                    *)
(*                                                                         *)
(* The specifications of the module:                                       *)
(*   Spec      the command path (show / toggle / hide-all), the window     *)
(*             manager it talks to and the daemon's event handlers;        *)
(*   SpecLive  Spec with the polling loop of wait_for_window scheduled;    *)
(*   SpecDaemon the daemon's event handlers alone, each handled event      *)
(*             recorded until the next;                                    *)
(*   SpecWarm  the daemon from its start: warm_up, then the listener;      *)
(*   SpecRace  two runs of the active-window-changed handler interleaved;  *)
(*   SpecSwitch one command next to the daemon, with the events it causes; *)
(*   SpecSni   find_sni as a function of the watcher's answer;             *)
(*   SpecGeom  the placement computed by set_window_rules as a function of *)
(*             cursor, monitors and widget width.                          *)
(*                                                                         *)
(* Strings whose content the code inspects (item addresses, identities,    *)
(* plasmoid identifiers) are sequences of one-character strings; the       *)
(* literal "plasmawindowed_" is one element.                               *)
(***************************************************************************)
EXTENDS Integers, Sequences, FiniteSets, TLC

VARIABLES
    cfg,      \* the registry: widget name -> Plasmoid (main.rs:22-30)
    geo,      \* what CursorPosition::get and Monitors::get answer
    visible,  \* titles of the windows in the compositor's client list
    pending,  \* titles whose window was requested (spawn / activate) and has not appeared yet
    kw,       \* the three input keywords set_focus_mode writes
    pc,       \* position of the running command
    cur,      \* the running (or last finished) command
    elapsed,  \* wait_for_window: sleeps taken so far
    log,      \* effects issued by the running (or last finished) command, in order
    hist,     \* what the last finished command was, while nothing else touched the windows since
    stray,    \* titles of the visible windows that appeared while no show was polling for them
    active,   \* the daemon's Active-Focus Flag (main.rs:247)
    lastEv,   \* the last event handled by the daemon, with what the handler did
    warm,     \* SpecWarm: the daemon's position in warm_up (main.rs:231-241)
    hs,       \* SpecRace: two runs of the active-window-changed handler, step by step
    wm,       \* SpecSwitch: the focused window and the events queued for the daemon
    sniIn,    \* SpecSni: the watcher's answer and the plasmoid looked for
    sniOut,   \* SpecSni: what find_sni returned
    geomIn,   \* SpecGeom: widget and geometry handed to set_window_rules
    geomOut   \* SpecGeom: what set_window_rules did

vars == <<cfg, geo, visible, pending, kw, pc, cur, elapsed, log, hist,
          stray, active, lastEv, warm, hs, wm, sniIn, sniOut, geomIn, geomOut>>

mainVars == <<cfg, geo, visible, pending, kw, pc, cur, elapsed, log, hist,
              stray, active, lastEv, warm, hs, wm>>

(***************************************************************************)
(* Bounds of the model.                                                    *)
(***************************************************************************)
\* longest watcher item list explored by SpecSni
MaxItems == 2
\* sleeps of wait_for_window(title, 500) before its deadline: 500 ms / 10 ms, scaled down
ShowPollTicks == 2
\* sleeps after which the 2000 ms of warm_up's wait_for_window have passed
WarmPollTicks == 2
\* widest monitor (physical pixels) explored by SpecGeom
MaxMonWidth == 130
\* active-window-changed events that may wait for the daemon at a time
MaxQueue == 3

(***************************************************************************)
(* Program constants.                                                      *)
(***************************************************************************)
PADDING == 20

\* Option<T> as a record
None == [some |-> FALSE, dest |-> <<>>, path |-> <<>>]
Some(d, p) == [some |-> TRUE, dest |-> d, path |-> p]

(***************************************************************************)
(* Service discovery: find_sni (main.rs:116-134).                          *)
(***************************************************************************)
\* str::ends_with
EndsWith(s, suf) ==
    /\ Len(s) >= Len(suf)
    /\ SubSeq(s, Len(s) - Len(suf) + 1, Len(s)) = suf

\* a split at the LAST '/' (str::rsplit_once)
SplitOnceLast(s) ==
    LET idx == {i \in 1..Len(s) : s[i] = "/"}
    IN  IF idx = {} THEN None
        ELSE LET i == CHOOSE k \in idx : \A j \in idx : k >= j
             IN  Some(SubSeq(s, 1, i - 1), SubSeq(s, i + 1, Len(s)))

\* str::split_once('/'): split at the FIRST '/', None when there is none
SplitOnce(s) ==
    LET idx == {i \in 1..Len(s) : s[i] = "/"}
    IN  IF idx = {} THEN None
        ELSE LET i == CHOOSE k \in idx : \A j \in idx : k <= j
             IN  Some(SubSeq(s, 1, i - 1), SubSeq(s, i + 1, Len(s)))

\* format!("plasmawindowed_{plasmoid}")
SuffixOf(plasmoid) == <<"plasmawindowed_">> \o plasmoid

\* the for loop of find_sni: every `?` returns None from the whole function
RECURSIVE ScanItems(_, _)
ScanItems(items, suffix) ==
    IF items = <<>> THEN None
    ELSE LET it == Head(items)
             sp == SplitOnce(it.addr)
         IN  IF ~sp.some THEN None                      \* item.split_once('/')?
             ELSE IF ~it.proxyOk THEN None              \* destination/path/build .ok()?
             ELSE IF ~it.id.ok THEN None                \* sni.id().await.ok()?
             ELSE IF EndsWith(it.id.val, suffix)
                  THEN Some(sp.dest, <<"/">> \o sp.path)
                  ELSE ScanItems(Tail(items), suffix)

FindSni(w, plasmoid) ==
    IF ~w.watcherOk THEN None                           \* WatcherProxy::new(conn).await.ok()?
    ELSE IF ~w.listOk THEN None                         \* registered_status_notifier_items().await.ok()?
    ELSE ScanItems(w.items, SuffixOf(plasmoid))

\* inputs of SpecSni
SniAddrs == { <<"d">>, <<"d", "/", "p">>, <<"e", "/", "p", "/", "q">> }
SniIds ==
    { [ok |-> FALSE, val |-> <<>>],
      [ok |-> TRUE, val |-> <<"7", "plasmawindowed_", "c">>],
      [ok |-> TRUE, val |-> <<"plasmawindowed_", "k", "c">>],
      [ok |-> TRUE, val |-> <<"7", "c">>] }
SniItems == [addr : SniAddrs, proxyOk : BOOLEAN, id : SniIds]
SniLists == UNION { [1..n -> SniItems] : n \in 0..MaxItems }
SniPlasmoids == { <<"c">>, <<"k", "c">> }
SniInputs == [watcherOk : BOOLEAN, listOk : BOOLEAN, items : SniLists, plasmoid : SniPlasmoids]

(***************************************************************************)
(* Geometry resolver: set_window_rules (main.rs:77-104).                   *)
(* A monitor is [focused, x, y, width, scaleHalves, reservedTop]: width is *)
(* physical pixels (u16), scaleHalves is twice the scale factor (so 2 is   *)
(* scale 1.0, 3 is 1.5, 4 is 2.0), reservedTop is mon.reserved.1.          *)
(***************************************************************************)
\* monitors.iter().find(|m| m.focused): the first focused monitor, if any
FocusedIndexes(monitors) == {i \in 1..Len(monitors) : monitors[i].focused}
FindFocused(monitors) ==
    monitors[CHOOSE i \in FocusedIndexes(monitors) : \A j \in FocusedIndexes(monitors) : i <= j]

\* the physical width, the scale factor forgotten
MonWidthPhysical(mon) == mon.width

\* (mon.width as f64 / mon.scale as f64) as i64: the quotient truncated
MonWidth(mon) == (2 * mon.width) \div mon.scaleHalves

\* i64::clamp(self, min, max) for min <= max
Clamp(v, min, max) == IF v < min THEN min ELSE IF v > max THEN max ELSE v

\* i64::min in the place of i64::max
Min(a, b) == IF a <= b THEN a ELSE b

\* i64::max
Max(a, b) == IF a >= b THEN a ELSE b

\* set_window_rules(p): "skip" (an early return), "panic" (Ord::clamp asserts
\* min <= max) or the rules injected, of which the move rule carries x and y
SetWindowRules(p, g) ==
    IF ~g.cursorOk THEN [kind |-> "skip", x |-> 0, y |-> 0]
    ELSE IF ~g.monitorsOk THEN [kind |-> "skip", x |-> 0, y |-> 0]
    ELSE IF FocusedIndexes(g.monitors) = {} THEN [kind |-> "skip", x |-> 0, y |-> 0]
    ELSE LET mon == FindFocused(g.monitors)
             mon_x == mon.x
             mon_width == MonWidth(mon)
             min == mon_x + PADDING
             max == mon_x + mon_width - p.width - PADDING
         IN  IF min > max THEN [kind |-> "panic", x |-> 0, y |-> 0]
             ELSE [kind |-> "rules",
                   x |-> Clamp(g.cx - PADDING, min, max),
                   y |-> Max(g.cy - PADDING, mon.y + mon.reservedTop + PADDING)]

\* inputs of SpecGeom
Mon(f, x, y, w, s, r) ==
    [focused |-> f, x |-> x, y |-> y, width |-> w, scaleHalves |-> s, reservedTop |-> r]
Decoy == Mon(FALSE, 500, 7, 400, 2, 3)
GeomMonitors ==
    { Mon(TRUE, x, y, w, s, r) :
        x \in {0, 100}, y \in {0, 30}, w \in {k \in 60..(2 * MaxMonWidth) : k % 20 = 0},
        s \in {2, 3, 4}, r \in {0, 30} }
GeomWidgets == { [width |-> 30], [width |-> 60] }
GeomGood ==
    { [p |-> p, g |-> [cursorOk |-> TRUE, cx |-> m.x + dx, cy |-> cy,
                       monitorsOk |-> TRUE, monitors |-> <<Decoy, m>>]] :
        p \in GeomWidgets, m \in GeomMonitors, dx \in 0..MaxMonWidth, cy \in {10, 90} }
GeomBad ==
    { [p |-> [width |-> 30],
       g |-> [cursorOk |-> c, cx |-> 50, cy |-> 50, monitorsOk |-> mo, monitors |-> ms]] :
        c \in BOOLEAN, mo \in BOOLEAN,
        ms \in { <<>>, <<Decoy>>, <<Mon(TRUE, 0, 0, 100, 2, 0)>> } }
GeomInputs == GeomGood \cup GeomBad

(***************************************************************************)
(* The registry (main.rs:22-30, 49-53).  Config is a HashMap from widget   *)
(* name to Plasmoid; nothing makes titles unique.                          *)
(***************************************************************************)
Names == {"calendar", "clock", "volume"}
NoName == "-"

Plasmoid(t, pl, w, h) == [title |-> t, plasmoid |-> pl, width |-> w, height |-> h]

\* every widget has a title of its own
RegDistinct ==
    [n \in Names |->
        CASE n = "calendar" -> Plasmoid("Calendar", <<"c", "a", "l">>, 300, 400)
          [] n = "clock"    -> Plasmoid("Clock", <<"c", "l", "k">>, 200, 100)
          [] n = "volume"   -> Plasmoid("Volume", <<"v", "o", "l">>, 250, 300)]

\* two widgets configured with the same title
RegShared == [RegDistinct EXCEPT !["clock"].title = "Calendar"]

Registries == {RegDistinct, RegShared}

TitlesOf(c) == {c[n].title : n \in Names}
DistinctTitles(c) == \A m, n \in Names : m # n => c[m].title # c[n].title

\* the orders in which a HashMap may hand out its entries
Orders ==
    { <<"calendar", "clock", "volume">>, <<"calendar", "volume", "clock">>,
      <<"clock", "calendar", "volume">>, <<"clock", "volume", "calendar">>,
      <<"volume", "calendar", "clock">>, <<"volume", "clock", "calendar">> }

(***************************************************************************)
(* What the compositor answers to CursorPosition::get and Monitors::get.   *)
(***************************************************************************)
Geo(cok, cx, cy, mok, ms) ==
    [cursorOk |-> cok, cx |-> cx, cy |-> cy, monitorsOk |-> mok, monitors |-> ms]

\* one focused 1920x1080 monitor at the origin, scale 1, 30 px reserved on top
GeoWide == Geo(TRUE, 1000, 500, TRUE, <<Mon(TRUE, 0, 0, 1920, 2, 30)>>)
\* a focused monitor narrower than a widget plus its padding
GeoNarrow == Geo(TRUE, 100, 100, TRUE, <<Mon(TRUE, 0, 0, 320, 2, 0)>>)
\* the cursor position cannot be read
GeoNoCursor == Geo(FALSE, 0, 0, TRUE, <<Mon(TRUE, 0, 0, 1920, 2, 30)>>)

(***************************************************************************)
(* The window manager facade, as the code uses it.  A world w is           *)
(* [visible, pending, kw, log]; every operator below returns the world     *)
(* after the call.  Mutating calls take effect when issued.                *)
(***************************************************************************)
Entry(e, t, x, y) == [e |-> e, t |-> t, x |-> x, y |-> y]

\* is_visible (main.rs:59-63)
is_visible(w, title) == title \in w.visible

\* Dispatch::call(CloseWindow(Title(title)))
CloseWindow(w, title) ==
    [w EXCEPT !.visible = @ \ {title}, !.log = Append(@, Entry("close", title, 0, 0))]

\* Dispatch::call(FocusWindow(Title(title)))
FocusWindow(w, title) == [w EXCEPT !.log = Append(@, Entry("focus", title, 0, 0))]

\* set_focus_mode that gives the cursor warps back when it restores the default
set_focus_mode_warp(w, show) ==
    [w EXCEPT !.kw = [follow_mouse |-> IF show THEN "2" ELSE "1",
                      float_switch_override_focus |-> IF show THEN "0" ELSE "1",
                      no_warps |-> IF show THEN "1" ELSE "0"],
              !.log = Append(@, Entry("focus_mode", IF show THEN "show" ELSE "default", 0, 0))]

\* set_focus_mode that takes every call for a call with show = true
set_focus_mode_show(w, show) ==
    [w EXCEPT !.kw = [follow_mouse |-> "2", float_switch_override_focus |-> "0", no_warps |-> "1"],
              !.log = Append(@, Entry("focus_mode", "show", 0, 0))]

\* set_focus_mode (main.rs:65-75)
set_focus_mode(w, show) ==
    [w EXCEPT !.kw = [follow_mouse |-> IF show THEN "2" ELSE "1",
                      float_switch_override_focus |-> IF show THEN "0" ELSE "1",
                      no_warps |-> IF show THEN "1" ELSE @.no_warps],
              !.log = Append(@, Entry("focus_mode", IF show THEN "show" ELSE "default", 0, 0))]

\* hide with its test inverted
hide_inverted(w, title) == IF ~is_visible(w, title) THEN CloseWindow(w, title) ELSE w

\* hide without its test: the close is dispatched whether or not the window is there
hide_blind(w, title) == CloseWindow(w, title)

\* hide (main.rs:147-151)
hide(w, title) == IF is_visible(w, title) THEN CloseWindow(w, title) ELSE w

\* the for loop of hide_all, over the entries in HashMap order
RECURSIVE HideEach(_, _, _, _)
HideEach(w, c, order, except) ==
    IF order = <<>> THEN w
    ELSE LET name == Head(order)
             w1 == IF name # except THEN hide(w, c[name].title) ELSE w
         IN  HideEach(w1, c, Tail(order), except)

\* hide_all that never restores the default focus mode
hide_all_keep(w, c, order, except) ==
    HideEach([w EXCEPT !.log = Append(@, Entry("hide_all", except, 0, 0))], c, order, except)

\* hide_all that hides nothing when an exception is given
hide_all_skip(w, c, order, except) ==
    LET w0 == [w EXCEPT !.log = Append(@, Entry("hide_all", except, 0, 0))]
    IN  IF except = NoName THEN set_focus_mode(HideEach(w0, c, order, except), FALSE) ELSE w0

\* hide_all (main.rs:153-162); except = NoName is None.  The call itself is logged.
hide_all(w, c, order, except) ==
    LET w0 == [w EXCEPT !.log = Append(@, Entry("hide_all", except, 0, 0))]
        w1 == HideEach(w0, c, order, except)
    IN  IF except = NoName THEN set_focus_mode(w1, FALSE) ELSE w1

\* spawn_plasmoid (main.rs:106-114): the window is requested, it appears later or never
spawn_plasmoid(w, p) ==
    [w EXCEPT !.pending = @ \cup {p.title}, !.log = Append(@, Entry("spawn", p.title, 0, 0))]

\* the three Keyword::set("windowrule", ...) calls of set_window_rules (main.rs:96-103)
InjectRules(w, p, r) ==
    [w EXCEPT !.log = @ \o << Entry("rule_float", p.title, 0, 0),
                             Entry("rule_size", p.title, p.width, p.height),
                             Entry("rule_move", p.title, r.x, r.y) >>]

\* nudge_cursor (main.rs:164-177)
nudge_cursor(w, g) ==
    IF g.cursorOk
    THEN [w EXCEPT !.log = @ \o << Entry("movecursor", "", g.cx + 1, g.cy),
                                  Entry("movecursor", "", g.cx, g.cy) >>]
    ELSE w

World == [visible |-> visible, pending |-> pending, kw |-> kw, log |-> log]
Fresh == [World EXCEPT !.log = <<>>]

\* the world w becomes the next state
Commit(w) ==
    /\ visible' = w.visible
    /\ stray' = stray \cap w.visible
    /\ pending' = w.pending
    /\ kw' = w.kw
    /\ log' = w.log

(***************************************************************************)
(* The command path: show (main.rs:179-208), toggle (main.rs:210-220) and  *)
(* hide-all (main.rs:279).  One command runs at a time; show suspends at   *)
(* its bus calls and at the sleeps of wait_for_window, where the window    *)
(* manager and the daemon may act.  A command that returned (pc = "done")  *)
(* or panicked leaves its record and log in place for one step, Exit,      *)
(* which forgets them.  Nothing else moves in between, which removes no    *)
(* behaviour of the program: the step only forgets history.  SpecDaemon    *)
(* records each handled event in lastEv in the same way, until EventDone.  *)
(***************************************************************************)
NoHist == [kind |-> "none", name |-> NoName]

NoCmd ==
    [op |-> "none", name |-> NoName, wasVisible |-> FALSE, result |-> "ok",
     saw |-> FALSE, endVisible |-> FALSE, clean |-> FALSE, after |-> NoHist]

\* a command starts; `after` is the command it follows when that was one on the same widget
NewCmd(op, name, wasVisible) ==
    [op |-> op, name |-> name, wasVisible |-> wasVisible, result |-> "running",
     saw |-> FALSE, endVisible |-> FALSE,
     clean |-> (op = "toggle" \/ wasVisible),
     after |-> IF hist.name = name /\ (hist.kind = "toggle" <=> op = "toggle") THEN hist ELSE NoHist]

\* lastEv: no event handled yet or since EventDone; EvOff: events are not recorded
NoEvent == [kind |-> "none", some |-> FALSE, title |-> "", flagBefore |-> FALSE, hideAlls |-> 0]
EvOff == [NoEvent EXCEPT !.kind = "off"]
Recorded(ev) == IF lastEv = EvOff THEN EvOff ELSE ev

Quiet == lastEv \in {NoEvent, EvOff}
CanStart == pc = "idle" /\ Quiet

CurTitle == IF cur.name \in Names THEN cfg[cur.name].title ELSE ""

\* the command returns: Ok(()) or Err
Return(w, result, saw) ==
    /\ Commit(w)
    /\ pc' = "done"
    /\ cur' = [cur EXCEPT !.result = result, !.saw = saw,
                          !.endVisible = (cfg[cur.name].title \in w.visible)]

\* show, up to its first suspension (main.rs:180-192)
ShowEntry(op, name, order) ==
    LET p == cfg[name]
        c == NewCmd(op, name, is_visible(World, p.title))
    IN  /\ elapsed' = 0
        /\ hist' = NoHist
        /\ IF is_visible(World, p.title)
           THEN LET w1 == FocusWindow(Fresh, p.title)
                    w2 == hide_all(w1, cfg, order, name)
                IN  /\ Commit(w2)
                    /\ pc' = "done"
                    /\ cur' = [c EXCEPT !.result = "ok", !.endVisible = (p.title \in w2.visible)]
           ELSE LET w1 == set_focus_mode(Fresh, TRUE)
                    w2 == hide_all(w1, cfg, order, name)
                    r == SetWindowRules(p, geo)
                IN  CASE r.kind = "panic" ->
                           /\ Commit(w2)
                           /\ pc' = "panicked"
                           /\ cur' = [c EXCEPT !.result = "panic"]
                      [] r.kind = "skip" ->
                           /\ Commit(w2)
                           /\ pc' = "discover"
                           /\ cur' = c
                      [] r.kind = "rules" ->
                           /\ Commit(InjectRules(w2, p, r))
                           /\ pc' = "discover"
                           /\ cur' = c

\* show(conn, cfg, name) called on its own
Show ==
    /\ CanStart
    /\ \E name \in Names, order \in Orders : ShowEntry("show", name, order)
    /\ UNCHANGED <<warm, hs, wm, cfg, geo, active, lastEv, sniIn, sniOut, geomIn, geomOut>>

\* toggle (main.rs:210-220), up to its first suspension
Toggle ==
    /\ CanStart
    /\ \E name \in Names, order \in Orders :
          LET p == cfg[name]
          IN  IF is_visible(World, p.title)
              THEN LET w1 == hide(Fresh, p.title)
                       w2 == set_focus_mode(w1, FALSE)
                       w3 == nudge_cursor(w2, geo)
                   IN  /\ Commit(w3)
                       /\ elapsed' = 0
                       /\ hist' = NoHist
                       /\ pc' = "done"
                       /\ cur' = [NewCmd("toggle", name, TRUE) EXCEPT
                                     !.result = "ok", !.endVisible = (p.title \in w3.visible)]
              ELSE ShowEntry("toggle", name, order)
    /\ UNCHANGED <<warm, hs, wm, cfg, geo, active, lastEv, sniIn, sniOut, geomIn, geomOut>>

\* the hide-all command: hide_all(&cfg, None) (main.rs:279)
HideAllCmd ==
    /\ CanStart
    /\ \E order \in Orders :
          LET w == hide_all(Fresh, cfg, order, NoName)
          IN  /\ Commit(w)
              /\ elapsed' = 0
              /\ hist' = NoHist
              /\ pc' = "done"
              /\ cur' = [NewCmd("hide_all", NoName, FALSE) EXCEPT !.result = "ok"]
    /\ UNCHANGED <<warm, hs, wm, cfg, geo, active, lastEv, sniIn, sniOut, geomIn, geomOut>>

\* what the watcher may answer during a show: its connection may fail, and its list
\* holds the items of widget processes and of other applications
WidgetItem(pl) == [addr |-> <<":", "1", "/", "S", "/", "I">>, proxyOk |-> TRUE,
                   id |-> [ok |-> TRUE, val |-> <<"7", "plasmawindowed_">> \o pl]]
BrokenItem == [addr |-> <<":", "2", "/", "S">>, proxyOk |-> TRUE, id |-> [ok |-> FALSE, val |-> <<>>]]
OtherItem == [addr |-> <<":", "3", "/", "S">>, proxyOk |-> TRUE,
              id |-> [ok |-> TRUE, val |-> <<"n", "m">>]]
WatcherItems(c) == {WidgetItem(c[n].plasmoid) : n \in Names} \cup {BrokenItem, OtherItem}
WatcherStates(c) ==
    {[watcherOk |-> FALSE, listOk |-> TRUE, items |-> <<>>]}
    \cup {[watcherOk |-> TRUE, listOk |-> TRUE, items |-> l] :
            l \in UNION {[1..n -> WatcherItems(c)] : n \in 0..2}}

\* discovery that spawns a backing process whatever it found
DiscoverSpawnToo ==
    /\ pc = "discover"
    /\ Quiet
    /\ \E wi \in WatcherStates(cfg) :
          LET p == cfg[cur.name]
              r == FindSni(wi, p.plasmoid)
              w1 == [World EXCEPT !.log = Append(@, Entry("find_sni", IF r.some THEN "some" ELSE "none", 0, 0))]
          IN  /\ Commit(spawn_plasmoid(w1, p))
              /\ pc' = IF r.some THEN "activate" ELSE "poll"
    /\ elapsed' = 0
    /\ UNCHANGED <<warm, hs, wm, cfg, geo, cur, hist, active, lastEv, sniIn, sniOut, geomIn, geomOut>>

\* find_sni(...).await, then spawn_plasmoid when it found nothing (main.rs:192, 200-202)
Discover ==
    /\ pc = "discover"
    /\ Quiet
    /\ \E wi \in WatcherStates(cfg) :
          LET p == cfg[cur.name]
              r == FindSni(wi, p.plasmoid)
              w1 == [World EXCEPT !.log = Append(@, Entry("find_sni", IF r.some THEN "some" ELSE "none", 0, 0))]
          IN  IF r.some
              THEN /\ Commit(w1)
                   /\ pc' = "activate"
              ELSE /\ Commit(spawn_plasmoid(w1, p))
                   /\ pc' = "poll"
    /\ elapsed' = 0
    /\ UNCHANGED <<warm, hs, wm, cfg, geo, cur, hist, active, lastEv, sniIn, sniOut, geomIn, geomOut>>

\* SniProxy::builder(..)...build().await?.activate(0, 0).await? (main.rs:193-199):
\* an error returns it from show, and from toggle before its nudge
Activate ==
    /\ pc = "activate"
    /\ Quiet
    /\ \E ok \in BOOLEAN :
          IF ok
          THEN /\ Commit([World EXCEPT !.pending = @ \cup {CurTitle},
                                       !.log = Append(@, Entry("activate", CurTitle, 0, 0))])
               /\ pc' = "poll"
               /\ cur' = cur
          ELSE Return([World EXCEPT !.log = Append(@, Entry("activate_err", CurTitle, 0, 0))],
                      "err", FALSE)
    /\ elapsed' = 0
    /\ UNCHANGED <<warm, hs, wm, cfg, geo, hist, active, lastEv, sniIn, sniOut, geomIn, geomOut>>

\* what follows show's Ok(()) in the caller: toggle nudges the cursor (main.rs:218)
AfterShow(w) == IF cur.op = "toggle" THEN nudge_cursor(w, geo) ELSE w

\* wait_for_window is entered: its first look at the client list is logged
Polled(w) == IF elapsed = 0 THEN [w EXCEPT !.log = Append(@, Entry("poll", CurTitle, 0, 0))] ELSE w

\* one round of wait_for_window(title, 500) (main.rs:136-145, 204-206): before the
\* deadline it looks for the window, and sleeps when it is not there
PollCheck ==
    /\ pc = "poll"
    /\ Quiet
    /\ elapsed < ShowPollTicks
    /\ IF is_visible(World, CurTitle)
       THEN /\ Return(AfterShow(FocusWindow(Polled(World), CurTitle)), "ok", TRUE)
            /\ elapsed' = elapsed
       ELSE /\ Commit(Polled(World))
            /\ \E e \in (elapsed + 1)..ShowPollTicks : elapsed' = e
            /\ UNCHANGED <<pc, cur>>
    /\ UNCHANGED <<warm, hs, wm, cfg, geo, hist, active, lastEv, sniIn, sniOut, geomIn, geomOut>>

\* a timeout after which the window is focused all the same
PollTimeoutFocus ==
    /\ pc = "poll"
    /\ Quiet
    /\ elapsed >= ShowPollTicks
    /\ Return(AfterShow(FocusWindow(World, CurTitle)), "ok", FALSE)
    /\ UNCHANGED <<warm, hs, wm, cfg, geo, elapsed, hist, active, lastEv, sniIn, sniOut, geomIn, geomOut>>

\* the deadline of wait_for_window passed: it returns false, show returns Ok(())
PollTimeout ==
    /\ pc = "poll"
    /\ Quiet
    /\ elapsed >= ShowPollTicks
    /\ Return(AfterShow(World), "ok", FALSE)
    /\ UNCHANGED <<warm, hs, wm, cfg, geo, elapsed, hist, active, lastEv, sniIn, sniOut, geomIn, geomOut>>

\* what is remembered of a finished command: a toggle that found its widget hidden, or
\* a show that found it visible, during which nothing else touched the windows
Summary(c) ==
    IF c.clean /\ ((c.op = "toggle" /\ ~c.wasVisible) \/ (c.op = "show" /\ c.wasVisible))
    THEN [kind |-> c.op, name |-> c.name]
    ELSE NoHist

\* the process of the command is gone
Exit ==
    /\ pc \in {"done", "panicked"}
    /\ pc' = "idle"
    /\ hist' = Summary(cur)
    /\ cur' = NoCmd
    /\ log' = <<>>
    /\ elapsed' = 0
    /\ UNCHANGED <<warm, hs, wm, cfg, geo, visible, pending, kw, stray, active, lastEv, sniIn, sniOut, geomIn, geomOut>>

Running == pc \in {"discover", "activate", "poll"}

(***************************************************************************)
(* The window manager: a requested window appears, at any time.            *)
(***************************************************************************)
Appear ==
    /\ pc \in {"idle", "discover", "activate", "poll"}
    /\ Quiet
    /\ \E t \in pending :
          /\ visible' = visible \cup {t}
          /\ pending' = pending \ {t}
          /\ stray' = IF pc = "poll" /\ CurTitle = t THEN stray \ {t} ELSE stray \cup {t}
          /\ cur' = IF Running THEN [cur EXCEPT !.clean = @ /\ (CurTitle = t)] ELSE cur
          /\ hist' = IF Running \/ (hist.kind = "toggle" /\ cfg[hist.name].title = t) THEN hist ELSE NoHist
    /\ UNCHANGED <<warm, hs, wm, cfg, geo, kw, pc, elapsed, log, active, lastEv, sniIn, sniOut, geomIn, geomOut>>

(***************************************************************************)
(* The daemon's event handlers (main.rs:251, 255-261).                     *)
(***************************************************************************)
HideAllCalls(l) == Cardinality({i \in 1..Len(l) : l[i].e = "hide_all"})

\* the daemon's hide_all(&cfg, None) acts on the window manager, not on the command's log
DaemonCommit(w) ==
    LET same == (w.visible = visible /\ w.kw = kw)
    IN  /\ visible' = w.visible
        /\ stray' = stray \cap w.visible
        /\ kw' = w.kw
        /\ cur' = IF Running THEN [cur EXCEPT !.clean = @ /\ same] ELSE cur
        /\ hist' = IF Running \/ same THEN hist ELSE NoHist
        /\ UNCHANGED <<pending, log>>

CanHandle == pc \in {"idle", "discover", "activate", "poll"} /\ Quiet

\* a workspace-changed handler that clears the flag as it hides
WorkspaceChangedClear ==
    /\ CanHandle
    /\ \E order \in Orders :
          LET w == hide_all(Fresh, cfg, order, NoName)
          IN  /\ DaemonCommit(w)
              /\ lastEv' = Recorded([kind |-> "workspace", some |-> FALSE, title |-> "",
                                      flagBefore |-> active, hideAlls |-> HideAllCalls(w.log)])
    /\ active' = FALSE
    /\ UNCHANGED <<warm, hs, wm, cfg, geo, pc, elapsed, sniIn, sniOut, geomIn, geomOut>>

\* listener.add_workspace_changed_handler(move |_| hide_all(&cfg2, None))
WorkspaceChanged ==
    /\ CanHandle
    /\ \E order \in Orders :
          LET w == hide_all(Fresh, cfg, order, NoName)
          IN  /\ DaemonCommit(w)
              /\ lastEv' = Recorded([kind |-> "workspace", some |-> FALSE, title |-> "",
                                      flagBefore |-> active, hideAlls |-> HideAllCalls(w.log)])
    /\ UNCHANGED <<warm, hs, wm, cfg, geo, pc, elapsed, active, sniIn, sniOut, geomIn, geomOut>>

\* titles a window that takes the focus may carry: the widgets' and another application's
EventTitles == {"Calendar", "Clock", "Volume", "Firefox"}

\* the handler with a load in the place of the swap: the flag is read and left set
ActiveWindowChangedLoad ==
    /\ CanHandle
    /\ \E data \in [some : BOOLEAN, title : EventTitles] :
          LET widget == data.some /\ data.title \in TitlesOf(cfg)
              ev(n) == Recorded([kind |-> "active", some |-> data.some, title |-> data.title,
                                 flagBefore |-> active, hideAlls |-> n])
          IN  IF widget
              THEN /\ active' = TRUE
                   /\ lastEv' = ev(0)
                   /\ UNCHANGED <<visible, pending, kw, log, cur, hist, stray>>
              ELSE /\ active' = active
                   /\ IF active
                      THEN \E order \in Orders :
                              LET w == hide_all(Fresh, cfg, order, NoName)
                              IN  /\ DaemonCommit(w)
                                  /\ lastEv' = ev(HideAllCalls(w.log))
                      ELSE /\ lastEv' = ev(0)
                           /\ UNCHANGED <<visible, pending, kw, log, cur, hist, stray>>
    /\ UNCHANGED <<warm, hs, wm, cfg, geo, pc, elapsed, sniIn, sniOut, geomIn, geomOut>>

\* the active-window-changed handler (main.rs:255-261); data is Option<WindowEventData>
ActiveWindowChanged ==
    /\ CanHandle
    /\ \E data \in [some : BOOLEAN, title : EventTitles] :
          LET widget == data.some /\ data.title \in TitlesOf(cfg)
              ev(n) == Recorded([kind |-> "active", some |-> data.some, title |-> data.title,
                                 flagBefore |-> active, hideAlls |-> n])
          IN  IF widget
              THEN /\ active' = TRUE                          \* active2.store(true)
                   /\ lastEv' = ev(0)
                   /\ UNCHANGED <<visible, pending, kw, log, cur, hist, stray>>
              ELSE /\ active' = FALSE                         \* active2.swap(false)
                   /\ IF active
                      THEN \E order \in Orders :
                              LET w == hide_all(Fresh, cfg, order, NoName)
                              IN  /\ DaemonCommit(w)
                                  /\ lastEv' = ev(HideAllCalls(w.log))
                      ELSE /\ lastEv' = ev(0)
                           /\ UNCHANGED <<visible, pending, kw, log, cur, hist, stray>>
    /\ UNCHANGED <<warm, hs, wm, cfg, geo, pc, elapsed, sniIn, sniOut, geomIn, geomOut>>

\* the handler returned
EventDone ==
    /\ ~Quiet
    /\ lastEv' = NoEvent
    /\ UNCHANGED <<warm, hs, wm, cfg, geo, visible, pending, kw, pc, cur, elapsed, log, hist, stray, active,
                   sniIn, sniOut, geomIn, geomOut>>

(***************************************************************************)
(* Specifications.                                                         *)
(***************************************************************************)
SniNotRun == [some |-> FALSE, dest |-> <<"?">>, path |-> <<>>]
GeomNotRun == [kind |-> "unset", x |-> 0, y |-> 0]
SniIdle == [watcherOk |-> FALSE, listOk |-> FALSE, items |-> <<>>, plasmoid |-> <<>>]
GeomIdle == [p |-> [width |-> 0], g |-> Geo(FALSE, 0, 0, FALSE, <<>>)]
\* no warm-up, no handler run and no event queue is followed
WarmOff == [phase |-> "off", todo |-> <<>>, saw |-> FALSE, runs |-> 0]
HsOff == <<>>
WmOff == [focus |-> "", evq |-> <<>>]

MainInit(c, g, ev) ==
    /\ cfg = c
    /\ geo = g
    /\ visible = {}
    /\ pending = {}
    /\ kw = [follow_mouse |-> "1", float_switch_override_focus |-> "1", no_warps |-> "0"]
    /\ pc = "idle"
    /\ cur = NoCmd
    /\ elapsed = 0
    /\ log = <<>>
    /\ hist = NoHist
    /\ stray = {}
    /\ active = FALSE
    /\ lastEv = ev
    /\ warm = WarmOff
    /\ hs = HsOff
    /\ wm = WmOff

\* the sessions explored: a registry and what the compositor answers
Sessions ==
    { <<RegDistinct, GeoWide>>, <<RegShared, GeoNoCursor>>, <<RegDistinct, GeoNarrow>> }

Init ==
    /\ \E s \in Sessions : MainInit(s[1], s[2], EvOff)
    /\ sniIn = SniIdle
    /\ sniOut = SniNotRun
    /\ geomIn = GeomIdle
    /\ geomOut = GeomNotRun

Next ==
    \/ Show
    \/ Toggle
    \/ HideAllCmd
    \/ Discover
    \/ Activate
    \/ PollCheck
    \/ PollTimeout
    \/ Exit
    \/ Appear
    \/ WorkspaceChanged
    \/ ActiveWindowChanged

Spec == Init /\ [][Next]_vars

\* the command path with its polling loop scheduled: the runtime resumes wait_for_window
\* after each sleep, so a round of the loop that can run does run
SpecLive == Spec /\ WF_vars(PollCheck) /\ WF_vars(PollTimeout)

\* the daemon alone: its handlers with every handled event recorded, the windows of the
\* session hidden, requested or visible in any combination, either focus mode in force
KwDefault == [follow_mouse |-> "1", float_switch_override_focus |-> "1", no_warps |-> "0"]
KwShow == [follow_mouse |-> "2", float_switch_override_focus |-> "0", no_warps |-> "1"]

DaemonInit ==
    /\ \E s \in Sessions : cfg = s[1] /\ geo = s[2]
    /\ visible \in SUBSET TitlesOf(cfg)
    /\ pending \in SUBSET (TitlesOf(cfg) \ visible)
    /\ kw \in {KwDefault, KwShow}
    /\ pc = "idle"
    /\ cur = NoCmd
    /\ elapsed = 0
    /\ log = <<>>
    /\ hist = NoHist
    /\ stray \in SUBSET visible
    /\ active = FALSE
    /\ lastEv = NoEvent
    /\ warm = WarmOff
    /\ hs = HsOff
    /\ wm = WmOff
    /\ sniIn = SniIdle
    /\ sniOut = SniNotRun
    /\ geomIn = GeomIdle
    /\ geomOut = GeomNotRun

DaemonNext ==
    \/ WorkspaceChanged
    \/ ActiveWindowChanged
    \/ EventDone
    \/ Appear

SpecDaemon == DaemonInit /\ [][DaemonNext]_vars

\* find_sni applied to one answer of the watcher
SniInit ==
    /\ MainInit(RegDistinct, GeoNoCursor, EvOff)
    /\ sniIn \in SniInputs
    /\ sniOut = SniNotRun
    /\ geomIn = GeomIdle
    /\ geomOut = GeomNotRun

SniRun ==
    /\ sniOut = SniNotRun
    /\ sniOut' = FindSni(sniIn, sniIn.plasmoid)
    /\ UNCHANGED <<mainVars, sniIn, geomIn, geomOut>>

SpecSni == SniInit /\ [][SniRun]_vars

\* set_window_rules applied to one widget and one answer of the compositor
GeomInit ==
    /\ MainInit(RegDistinct, GeoNoCursor, EvOff)
    /\ sniIn = SniIdle
    /\ sniOut = SniNotRun
    /\ geomIn \in GeomInputs
    /\ geomOut = GeomNotRun

GeomRun ==
    /\ geomOut = GeomNotRun
    /\ geomOut' = SetWindowRules(geomIn.p, geomIn.g)
    /\ UNCHANGED <<mainVars, sniIn, sniOut, geomIn>>

SpecGeom == GeomInit /\ [][GeomRun]_vars

(***************************************************************************)
(* The daemon from its start: warm_up (main.rs:231-241), then the listener *)
(* and its handlers (main.rs:246-266).  pc is "warm_up" until the listener *)
(* is started, "idle" from then on.  The log holds what warm_up issued.    *)
(***************************************************************************)
WarmTitle == cfg[Head(warm.todo)].title

\* daemon calls warm_up(&cfg): cfg.values() yields the widgets in HashMap order
WarmUp ==
    /\ pc = "warm_up" /\ warm.phase = "init"
    /\ \E order \in Orders :
          warm' = [phase |-> "next", todo |-> order, saw |-> FALSE, runs |-> warm.runs + 1]
    /\ UNCHANGED <<cfg, geo, visible, pending, kw, pc, cur, elapsed, log, hist, stray, active,
                   lastEv, hs, wm, sniIn, sniOut, geomIn, geomOut>>

\* one widget of the loop, up to its wait: the off-screen rule, then the spawn
WarmBegin ==
    /\ pc = "warm_up" /\ warm.phase = "next" /\ warm.todo # <<>>
    /\ LET w1 == [World EXCEPT !.log = Append(@, Entry("rule_offscreen", WarmTitle, -10000, -10000))]
       IN  Commit(spawn_plasmoid(w1, cfg[Head(warm.todo)]))
    /\ warm' = [warm EXCEPT !.phase = "poll"]
    /\ elapsed' = 0
    /\ UNCHANGED <<cfg, geo, pc, cur, hist, active, lastEv, hs, wm, sniIn, sniOut, geomIn, geomOut>>

\* a round of wait_for_window(title, 2000): the window is there, it is closed and the
\* rule is unset; or it is not there and the loop sleeps
WarmPollCheck ==
    /\ pc = "warm_up" /\ warm.phase = "poll"
    /\ elapsed < WarmPollTicks
    /\ IF is_visible(World, WarmTitle)
       THEN LET w1 == [World EXCEPT !.log = Append(@, Entry("poll_seen", WarmTitle, 0, 0))]
                w2 == CloseWindow(w1, WarmTitle)
                w3 == [w2 EXCEPT !.log = Append(@, Entry("rule_unset", WarmTitle, 0, 0))]
            IN  /\ Commit(w3)
                /\ warm' = [warm EXCEPT !.phase = "next", !.todo = Tail(@), !.saw = TRUE]
                /\ elapsed' = elapsed
       ELSE /\ \E e \in (elapsed + 1)..WarmPollTicks : elapsed' = e
            /\ UNCHANGED <<visible, pending, kw, log, stray, warm>>
    /\ UNCHANGED <<cfg, geo, pc, cur, hist, active, lastEv, hs, wm, sniIn, sniOut, geomIn, geomOut>>

\* a timeout that gives warm_up up: the rule stays and the remaining widgets are skipped
WarmPollTimeoutStop ==
    /\ pc = "warm_up" /\ warm.phase = "poll"
    /\ elapsed >= WarmPollTicks
    /\ Commit([World EXCEPT !.log = Append(@, Entry("poll_timeout", WarmTitle, 0, 0))])
    /\ warm' = [warm EXCEPT !.phase = "next", !.todo = <<>>]
    /\ UNCHANGED <<cfg, geo, pc, cur, elapsed, hist, active, lastEv, hs, wm,
                   sniIn, sniOut, geomIn, geomOut>>

\* the 2000 ms passed: wait_for_window returns false, nothing is closed, the rule is unset
WarmPollTimeout ==
    /\ pc = "warm_up" /\ warm.phase = "poll"
    /\ elapsed >= WarmPollTicks
    /\ Commit([World EXCEPT !.log = @ \o << Entry("poll_timeout", WarmTitle, 0, 0),
                                            Entry("rule_unset", WarmTitle, 0, 0) >>])
    /\ warm' = [warm EXCEPT !.phase = "next", !.todo = Tail(@)]
    /\ UNCHANGED <<cfg, geo, pc, cur, elapsed, hist, active, lastEv, hs, wm,
                   sniIn, sniOut, geomIn, geomOut>>

\* warm_up returned: the flag is created, the handlers are registered, the listener starts
ListenerStart ==
    /\ pc = "warm_up" /\ warm.phase = "next" /\ warm.todo = <<>>
    /\ pc' = "idle"
    /\ active' = FALSE
    /\ warm' = [warm EXCEPT !.phase = "done"]
    /\ UNCHANGED <<cfg, geo, visible, pending, kw, cur, elapsed, log, hist, stray,
                   lastEv, hs, wm, sniIn, sniOut, geomIn, geomOut>>

\* a requested window appears while warm_up runs
WarmAppear ==
    /\ pc = "warm_up"
    /\ \E t \in pending :
          /\ visible' = visible \cup {t}
          /\ pending' = pending \ {t}
    /\ UNCHANGED <<cfg, geo, kw, pc, cur, elapsed, log, hist, stray, active, lastEv, warm, hs, wm,
                   sniIn, sniOut, geomIn, geomOut>>

\* the daemon command starts: no widget window exists yet
WarmInit ==
    /\ cfg \in Registries
    /\ geo = GeoWide
    /\ visible = {}
    /\ pending = {}
    /\ kw = KwDefault
    /\ pc = "warm_up"
    /\ cur = NoCmd
    /\ elapsed = 0
    /\ log = <<>>
    /\ hist = NoHist
    /\ stray = {}
    /\ active = FALSE
    /\ lastEv = NoEvent
    /\ warm = [phase |-> "init", todo |-> <<>>, saw |-> FALSE, runs |-> 0]
    /\ hs = HsOff
    /\ wm = WmOff
    /\ sniIn = SniIdle
    /\ sniOut = SniNotRun
    /\ geomIn = GeomIdle
    /\ geomOut = GeomNotRun

\* the steps of the daemon's own task
WarmSteps ==
    \/ WarmUp
    \/ WarmBegin
    \/ WarmPollCheck
    \/ WarmPollTimeout
    \/ ListenerStart

WarmNext ==
    \/ WarmUp
    \/ WarmBegin
    \/ WarmPollCheck
    \/ WarmPollTimeout
    \/ ListenerStart
    \/ WarmAppear
    \/ Appear
    \/ WorkspaceChanged
    \/ ActiveWindowChanged
    \/ EventDone

\* the runtime keeps running the daemon's task
SpecWarm == WarmInit /\ [][WarmNext]_vars /\ WF_vars(WarmSteps)

(***************************************************************************)
(* Two runs of the active-window-changed handler (main.rs:255-261) taken   *)
(* step by step and interleaved: the test of the title, the store or the   *)
(* swap on the flag, the hide_all.  hs is [flag0, run]: the flag before    *)
(* the two runs and, per run, its position, its event, what its swap       *)
(* returned and how often it called hide_all.                              *)
(***************************************************************************)
Runs == {1, 2}
EventData == [some : BOOLEAN, title : EventTitles]
IsWidgetEvent(data, c) == data.some /\ data.title \in TitlesOf(c)

\* data.as_ref().is_some_and(|d| titles.contains(&d.title)); `seen` notes the flag as it
\* is at this moment, which the handler does not read
HandlerTest(h) ==
    /\ hs.run[h].pc = "entry"
    /\ hs' = [hs EXCEPT !.run[h].pc = IF IsWidgetEvent(hs.run[h].data, cfg) THEN "store" ELSE "swap",
                        !.run[h].seen = active]
    /\ UNCHANGED <<cfg, geo, visible, pending, kw, pc, cur, elapsed, log, hist, stray, active,
                   lastEv, warm, wm, sniIn, sniOut, geomIn, geomOut>>

\* active2.store(true, Ordering::Relaxed)
HandlerStore(h) ==
    /\ hs.run[h].pc = "store"
    /\ active' = TRUE
    /\ hs' = [hs EXCEPT !.run[h].pc = "done"]
    /\ UNCHANGED <<cfg, geo, visible, pending, kw, pc, cur, elapsed, log, hist, stray,
                   lastEv, warm, wm, sniIn, sniOut, geomIn, geomOut>>

\* a swap that returns what the flag was when the handler was entered
SwapValueStale(h) == hs.run[h].seen

\* what active2.swap(false, ..) returns: the flag as it is when the swap executes
SwapValue(h) == active

\* active2.swap(false, Ordering::Relaxed): one atomic read-modify-write
HandlerSwap(h) ==
    /\ hs.run[h].pc = "swap"
    /\ active' = FALSE
    /\ hs' = [hs EXCEPT !.run[h].old = SwapValue(h),
                        !.run[h].pc = IF SwapValue(h) THEN "hide" ELSE "done"]
    /\ UNCHANGED <<cfg, geo, visible, pending, kw, pc, cur, elapsed, log, hist, stray,
                   lastEv, warm, wm, sniIn, sniOut, geomIn, geomOut>>

\* hide_all(&cfg3, None)
HandlerHide(h) ==
    /\ hs.run[h].pc = "hide"
    /\ \E order \in Orders : DaemonCommit(hide_all(Fresh, cfg, order, NoName))
    /\ hs' = [hs EXCEPT !.run[h].hid = @ + 1, !.run[h].pc = "done"]
    /\ UNCHANGED <<cfg, geo, pc, elapsed, active, lastEv, warm, wm, sniIn, sniOut, geomIn, geomOut>>

NewRun(data) == [pc |-> "entry", data |-> data, seen |-> FALSE, old |-> FALSE, hid |-> 0]

\* the daemon listens; two events are handed to the handler at once
RaceInit ==
    /\ cfg \in Registries
    /\ geo = GeoWide
    /\ visible \in SUBSET TitlesOf(cfg)
    /\ pending = {}
    /\ kw \in {KwDefault, KwShow}
    /\ pc = "idle"
    /\ cur = NoCmd
    /\ elapsed = 0
    /\ log = <<>>
    /\ hist = NoHist
    /\ stray = {}
    /\ active \in BOOLEAN
    /\ lastEv = EvOff
    /\ warm = WarmOff
    /\ \E d1 \in EventData, d2 \in EventData :
          hs = [flag0 |-> active, run |-> <<NewRun(d1), NewRun(d2)>>]
    /\ wm = WmOff
    /\ sniIn = SniIdle
    /\ sniOut = SniNotRun
    /\ geomIn = GeomIdle
    /\ geomOut = GeomNotRun

RaceNext ==
    \E h \in Runs :
        \/ HandlerTest(h)
        \/ HandlerStore(h)
        \/ HandlerSwap(h)
        \/ HandlerHide(h)

SpecRace == RaceInit /\ [][RaceNext]_vars

(***************************************************************************)
(* A command run next to the listening daemon, with the events the command *)
(* causes: the compositor moves the focus when the focused window is       *)
(* closed or a widget window has come up, and queues an                    *)
(* active-window-changed event for the daemon, which handles the queue in  *)
(* order at its own pace.  wm is [first, focus, evq]: the title of the     *)
(* widget visible at the start, the focused title, the queued events.      *)
(***************************************************************************)
\* the compositor changes the active window and tells the listeners
FocusMoved ==
    /\ pc \in {"discover", "activate", "poll"}
    /\ Len(wm.evq) < MaxQueue
    /\ \/ /\ wm.focus \in TitlesOf(cfg) /\ wm.focus \notin visible
          /\ \E d \in {[some |-> TRUE, title |-> "Firefox"], [some |-> FALSE, title |-> "Firefox"]} :
                wm' = [wm EXCEPT !.focus = IF d.some THEN d.title ELSE "", !.evq = Append(@, d)]
       \/ \E t \in visible \ {wm.focus} :
             wm' = [wm EXCEPT !.focus = t, !.evq = Append(@, [some |-> TRUE, title |-> t])]
    /\ UNCHANGED <<cfg, geo, visible, pending, kw, pc, cur, elapsed, log, hist, stray, active,
                   lastEv, warm, hs, sniIn, sniOut, geomIn, geomOut>>

\* the active-window-changed handler (main.rs:255-261) run on the oldest queued event
QueuedActiveWindowChanged ==
    /\ CanHandle
    /\ wm.evq # <<>>
    /\ wm' = [wm EXCEPT !.evq = Tail(@)]
    /\ IF IsWidgetEvent(Head(wm.evq), cfg)
       THEN /\ active' = TRUE
            /\ UNCHANGED <<visible, pending, kw, log, cur, hist, stray>>
       ELSE /\ active' = FALSE
            /\ IF active
               THEN \E order \in Orders : DaemonCommit(hide_all(Fresh, cfg, order, NoName))
               ELSE UNCHANGED <<visible, pending, kw, log, cur, hist, stray>>
    /\ UNCHANGED <<cfg, geo, pc, elapsed, lastEv, warm, hs, sniIn, sniOut, geomIn, geomOut>>

\* a widget is visible and focused, shown by an earlier command: show mode is in force
\* and the daemon's flag is set
SwitchInit ==
    /\ cfg = RegDistinct
    /\ geo = GeoWide
    /\ \E a \in Names :
          /\ visible = {cfg[a].title}
          /\ wm = [first |-> cfg[a].title, focus |-> cfg[a].title, evq |-> <<>>]
    /\ pending = {}
    /\ kw = KwShow
    /\ pc = "idle"
    /\ cur = NoCmd
    /\ elapsed = 0
    /\ log = <<>>
    /\ hist = NoHist
    /\ stray = {}
    /\ active = TRUE
    /\ lastEv = EvOff
    /\ warm = WarmOff
    /\ hs = HsOff
    /\ sniIn = SniIdle
    /\ sniOut = SniNotRun
    /\ geomIn = GeomIdle
    /\ geomOut = GeomNotRun

\* one command, the compositor and the daemon
SwitchNext ==
    \/ Show
    \/ Toggle
    \/ Discover
    \/ Activate
    \/ PollCheck
    \/ PollTimeout
    \/ Appear
    \/ FocusMoved
    \/ QueuedActiveWindowChanged

SpecSwitch == SwitchInit /\ [][SwitchNext]_vars

(***************************************************************************)
(* Properties.                                                             *)
(***************************************************************************)
Count(l, e, t) == Cardinality({i \in 1..Len(l) : l[i].e = e /\ l[i].t = t})
CountKind(l, e) == Cardinality({i \in 1..Len(l) : l[i].e = e})

\* C1, as stated: in every reachable state at most one configured widget's window is
\* visible.  Refuted: a window requested by a show whose poll timed out appears later,
\* next to the window of the widget shown since.
C1_AtMostOneVisible == Cardinality(visible) <= 1

\* C1, amended: among the windows that appeared while the show that requested them was
\* still polling for them, at most one is visible at a time; and while a cold show(W)
\* runs, no such window of another widget is visible.
C1_AtMostOneAwaitedVisible ==
    /\ Cardinality(visible \ stray) <= 1
    /\ Running => (visible \ stray) \subseteq {CurTitle}

\* C1 witness: a show ended with its own window visible after closing another widget's
C1_Witness ==
    /\ pc = "done" /\ cur.op \in {"show", "toggle"} /\ ~cur.wasVisible /\ cur.saw
    /\ visible = {CurTitle} /\ stray = {}
    /\ \E i \in 1..Len(log) : log[i].e = "close"

\* an item of the watcher's list that find_sni can query: its address splits, its proxy
\* builds, its identity is read
Healthy(it) == it.proxyOk /\ it.id.ok /\ (\E i \in 1..Len(it.addr) : it.addr[i] = "/")

\* the identity ends with "plasmawindowed_<plasmoid>"
Matches(it, plasmoid) ==
    /\ it.id.ok
    /\ \E k \in 0..Len(it.id.val) :
          it.id.val = SubSeq(it.id.val, 1, k) \o <<"plasmawindowed_">> \o plasmoid

\* r is (destination, "/" + path) of the address split at its first '/'
IsSplitOf(r, addr) ==
    /\ r.some
    /\ r.dest \o r.path = addr
    /\ \A i \in 1..Len(r.dest) : r.dest[i] # "/"
    /\ Len(r.path) >= 1 /\ r.path[1] = "/"

SniRan == sniOut # SniNotRun
SniListed == sniIn.watcherOk /\ sniIn.listOk

\* C2, as stated: when an earlier item fails and a later item matches, find_sni still
\* returns the later item (the first healthy match of the list).
C2_FailureIsolation ==
    (SniRan /\ SniListed) =>
        \A j \in 1..Len(sniIn.items) :
            ( /\ Healthy(sniIn.items[j]) /\ Matches(sniIn.items[j], sniIn.plasmoid)
              /\ \E i \in 1..(j - 1) : ~Healthy(sniIn.items[i])
              /\ \A i \in 1..(j - 1) :
                    ~(Healthy(sniIn.items[i]) /\ Matches(sniIn.items[i], sniIn.plasmoid)) )
            => IsSplitOf(sniOut, sniIn.items[j].addr)

\* C3: when every item can be queried, find_sni returns the first item, in list order,
\* whose identity ends with the suffix, as (destination, "/" + path) of its address split
\* at the first '/'; and nothing when no item matches.
C3_FirstMatchWins ==
    (SniRan /\ SniListed /\ \A i \in 1..Len(sniIn.items) : Healthy(sniIn.items[i])) =>
        LET hits == {i \in 1..Len(sniIn.items) : Matches(sniIn.items[i], sniIn.plasmoid)}
        IN  IF hits = {} THEN ~sniOut.some
            ELSE \E j \in hits :
                    /\ \A i \in hits : j <= i
                    /\ IsSplitOf(sniOut, sniIn.items[j].addr)

\* C3 witness: two healthy items, only the second matches, and its address holds two '/'
C3_Witness ==
    /\ SniRan /\ SniListed /\ Len(sniIn.items) = 2
    /\ Healthy(sniIn.items[1]) /\ Healthy(sniIn.items[2])
    /\ ~Matches(sniIn.items[1], sniIn.plasmoid) /\ Matches(sniIn.items[2], sniIn.plasmoid)
    /\ sniIn.items[2].addr = <<"e", "/", "p", "/", "q">>
    /\ sniOut = Some(<<"e">>, <<"/", "p", "/", "q">>)

\* the step in which show(W) runs from its entry to its first suspension or return,
\* hide_all(cfg, Some(W)) included; W is cur'.name
ShowEntered ==
    /\ pc = "idle" /\ pc' # "idle"
    /\ cur'.op \in {"show", "toggle"}
    /\ ~(cur'.op = "toggle" /\ cur'.wasVisible)

\* the close dispatches of the step, widget by widget: none for W's title, one for each
\* other widget whose window was visible, none for the others, and no further one
ClosesAsClaimed ==
    LET W == cur'.name
    IN  /\ Count(log', "hide_all", W) = 1
        /\ Count(log', "close", cfg[W].title) = 0
        /\ \A V \in Names \ {W} :
              Count(log', "close", cfg[V].title) = IF cfg[V].title \in visible THEN 1 ELSE 0

\* C4, as stated: for every registry, hide_all(except=W) issues no close dispatch for W's
\* title and exactly one for each other widget whose window is visible.  Refuted by a
\* registry in which another widget carries W's title.
C4_HideAllExcept_AnyRegistry == [][ShowEntered => ClosesAsClaimed]_vars

\* C4, amended: for every registry whose widgets carry pairwise distinct titles,
\* hide_all(except=W) issues no close dispatch for W's title, exactly one for each other
\* widget whose window is visible and none for a widget whose window is not.
C4_HideAllExcept_DistinctTitles ==
    [][(ShowEntered /\ DistinctTitles(cfg)) =>
          /\ ClosesAsClaimed
          /\ CountKind(log', "close") =
                Cardinality({V \in Names \ {cur'.name} : cfg[V].title \in visible})]_vars

\* C4 witness: hide_all(except=W) closed the windows of both other widgets and left W's
C4_Witness ==
    /\ DistinctTitles(cfg) /\ pc = "done" /\ cur.op = "show" /\ cur.wasVisible
    /\ CountKind(log, "close") = 2 /\ Count(log, "close", CurTitle) = 0
    /\ visible = {CurTitle}

WarmShowDone == pc = "done" /\ cur.op = "show" /\ cur.wasVisible

\* C5: a show(W) that finds W's window visible issues exactly one focus-by-title dispatch,
\* for W, hides every other widget, and does no discovery, activation, spawn, rule
\* injection or polling; so does each of several such calls in a row.
C5_WarmShowRefocusOnly ==
    WarmShowDone =>
        /\ cur.result = "ok"
        /\ Count(log, "focus", CurTitle) = 1 /\ CountKind(log, "focus") = 1
        /\ \A e \in {"find_sni", "activate", "activate_err", "spawn", "rule_float",
                     "rule_size", "rule_move", "poll"} : CountKind(log, e) = 0
        /\ \A V \in Names \ {cur.name} : cfg[V].title \notin visible

\* C5 witness: the second of two show(W) calls in a row that found W's window visible
C5_Witness == WarmShowDone /\ cur.after = [kind |-> "show", name |-> cur.name] /\ CurTitle \in visible

\* the second of two toggle(W) calls in a row has returned: the first found W hidden, and
\* from its start to now nothing but the two calls and W's own window touched the windows
SecondToggleDone ==
    /\ pc = "done" /\ cur.op = "toggle" /\ cur.clean
    /\ cur.after = [kind |-> "toggle", name |-> cur.name]

DefaultMode == kw.follow_mouse = "1" /\ kw.float_switch_override_focus = "1"

\* C6, as stated: two toggle(W) calls in a row, starting with W hidden, leave W hidden.
\* Refuted when the window requested by the first call has not appeared by the time the
\* second call starts: the second call shows W again.
C6_ToggleTwice_AsStated == SecondToggleDone => ~cur.endVisible

\* C6, amended: two toggle(W) calls in a row, starting with W hidden, leave W hidden and
\* the default focus mode in force, provided W's window is visible when the second call
\* starts.
C6_ToggleTwice_WindowAppeared ==
    (SecondToggleDone /\ cur.wasVisible) =>
        /\ ~cur.endVisible /\ CurTitle \notin visible
        /\ DefaultMode
        /\ Count(log, "close", CurTitle) = 1

\* C6 witness: the second toggle found the window the first one requested, and closed it
C6_Witness == SecondToggleDone /\ cur.wasVisible /\ ~cur.endVisible

\* the title of the handled event is a configured widget title
EvWidget == lastEv.some /\ lastEv.title \in TitlesOf(cfg)

\* C7: hide_all(None) is called once per workspace-changed event; once per
\* active-window-changed event that carries no widget title and finds the flag set, and
\* the flag is then cleared; not at all for an active-window-changed event that finds the
\* flag unset or carries a widget title.
C7_ReactorHideAllCalls ==
    /\ lastEv.kind = "workspace" => lastEv.hideAlls = 1
    /\ (lastEv.kind = "active" /\ ~EvWidget /\ lastEv.flagBefore) =>
          (lastEv.hideAlls = 1 /\ ~active)
    /\ (lastEv.kind = "active" /\ ~EvWidget /\ ~lastEv.flagBefore) => lastEv.hideAlls = 0
    /\ (lastEv.kind = "active" /\ EvWidget) => lastEv.hideAlls = 0

\* C7 witness: focus left a widget for another application's window while a widget's
\* window was visible; hide_all(None) ran once and closed it
C7_Witness ==
    /\ lastEv.kind = "active" /\ lastEv.some /\ lastEv.title = "Firefox" /\ lastEv.flagBefore
    /\ lastEv.hideAlls = 1 /\ ~active /\ visible = {} /\ DefaultMode /\ kw.no_warps = "1"

GeomRan == geomOut # GeomNotRun
GeomAnswered ==
    /\ geomIn.g.cursorOk /\ geomIn.g.monitorsOk
    /\ \E i \in 1..Len(geomIn.g.monitors) : geomIn.g.monitors[i].focused
\* the focused monitor (the inputs hold at most one)
GeomMon == CHOOSE m \in {geomIn.g.monitors[i] : i \in 1..Len(geomIn.g.monitors)} : m.focused
IntegerScale == GeomMon.scaleHalves % 2 = 0
\* physical width divided by an integer scale
LogicalWidth == GeomMon.width \div (GeomMon.scaleHalves \div 2)
LowerBound == GeomMon.x + 20
UpperBound == GeomMon.x + LogicalWidth - geomIn.p.width - 20

\* C8, as stated: on a monitor narrower than the widget plus twice the padding the
\* resolver does not panic: it returns the lower bound and the move rule is injected.
C8_NarrowMonitorLowerBound ==
    (GeomRan /\ GeomAnswered /\ IntegerScale /\ LogicalWidth < geomIn.p.width + 2 * 20) =>
        (geomOut.kind = "rules" /\ geomOut.x = LowerBound)

\* C9: with the cursor within the focused monitor's logical bounds and an integer scale,
\* the x of the move rule is cursor.x - 20 clamped into, and so lies within,
\* [monitor.x + 20, monitor.x + logical_width - widget.width - 20], and its y is
\* max(cursor.y - 20, monitor.y + reserved + 20); a rule is written exactly when that
\* interval is not empty.
C9_MoveRuleClamped ==
    ( /\ GeomRan /\ GeomAnswered /\ IntegerScale
      /\ geomIn.g.cx >= GeomMon.x /\ geomIn.g.cx <= GeomMon.x + LogicalWidth ) =>
        LET v == geomIn.g.cx - 20
            a == geomIn.g.cy - 20
            b == GeomMon.y + GeomMon.reservedTop + 20
        IN  IF LowerBound <= UpperBound
            THEN /\ geomOut.kind = "rules"
                 /\ LowerBound <= geomOut.x /\ geomOut.x <= UpperBound
                 /\ \/ geomOut.x = v
                    \/ v < LowerBound /\ geomOut.x = LowerBound
                    \/ v > UpperBound /\ geomOut.x = UpperBound
                 /\ geomOut.y >= a /\ geomOut.y >= b /\ geomOut.y \in {a, b}
            ELSE geomOut.kind # "rules"

\* C9 witness: on a monitor of scale 2 the cursor is near the right edge and x is the upper
\* bound; y is the reserved offset plus the padding
C9_Witness ==
    /\ GeomRan /\ GeomAnswered /\ GeomMon.scaleHalves = 4 /\ geomOut.kind = "rules"
    /\ geomIn.g.cx <= GeomMon.x + LogicalWidth
    /\ geomIn.g.cx - 20 > UpperBound /\ geomOut.x = UpperBound
    /\ geomOut.y = GeomMon.y + GeomMon.reservedTop + 20 /\ geomOut.y > geomIn.g.cy - 20

\* show("calendar") found no window of the calendar and has returned, in the session of
\* the scenario: calendar is "Calendar", 300x400; the cursor is at (1000, 500) on one
\* focused 1920x1080 monitor at (0, 0), scale 1, reserved offset 30
ColdCalendarShowDone ==
    /\ pc = "done" /\ cur.op \in {"show", "toggle"} /\ cur.name = "calendar" /\ ~cur.wasVisible
    /\ cfg = RegDistinct /\ geo = GeoWide

\* the scenario's steps, with the move rule's y between ymin and ymax
ScenarioSteps(ymin, ymax) ==
    /\ CountKind(log, "rule_move") = 1
    /\ \E i \in 1..(Len(log) - 2) :
          /\ log[i].e = "rule_move" /\ log[i].t = "Calendar"
          /\ log[i].x >= 20 /\ log[i].x <= 1580
          /\ log[i].y >= ymin /\ log[i].y <= ymax
          /\ log[i + 1].e = "find_sni"
          /\ log[i + 1].t = "none" => (log[i + 2].e = "spawn" /\ log[i + 2].t = "Calendar")
          /\ log[i + 1].t # "none" => CountKind(log, "spawn") = 0
    /\ cur.saw <=> Count(log, "focus", "Calendar") = 1
    /\ \A i, j \in 1..Len(log) : (log[i].e = "focus" /\ log[j].e = "poll") => j < i

\* C10, as stated: the move rule has x in [20, 1580] and y >= 530; then discovery, a spawn
\* when discovery fails, and a focus dispatch when the window appears in time.  Refuted:
\* y is max(500 - 20, 0 + 30 + 20) = 480.
C10_Scenario_AsStated == ColdCalendarShowDone => ScenarioSteps(530, 100000)

\* C10, amended: the move rule has x in [20, 1580] and y = 480; then discovery, a spawn
\* when discovery fails, and a focus dispatch exactly when a poll saw the window.
C10_Scenario_Y480 ==
    ColdCalendarShowDone =>
        /\ ScenarioSteps(480, 480)
        /\ \E i \in 1..Len(log) : log[i].e = "rule_move" /\ log[i].x = 980

\* C10 witness: discovery failed, the calendar was spawned, appeared and was focused
C10_Witness ==
    /\ ColdCalendarShowDone /\ cur.saw /\ cur.result = "ok"
    /\ CountKind(log, "spawn") = 1 /\ Count(log, "find_sni", "none") = 1
    /\ "Calendar" \in visible

ColdDone == pc = "done" /\ cur.op \in {"show", "toggle"} /\ ~cur.wasVisible

\* C11, as stated: every toggle(W) that returns ends with the two movecursor dispatches of
\* the nudge, whichever branch ran and whatever the show branch met (here with a cursor
\* position that can be read).  Refuted by a failed activation.
C11_ToggleAlwaysNudges ==
    (pc = "done" /\ cur.op = "toggle" /\ geo.cursorOk) =>
        /\ Len(log) >= 2
        /\ log[Len(log) - 1].e = "movecursor" /\ log[Len(log)].e = "movecursor"
        /\ CountKind(log, "movecursor") = 2

\* C12, as stated: when discovery found an endpoint and building its proxy or its activate
\* call fails, the cold show still polls for the window and returns success.  Refuted: the
\* error is returned at once.
C12_ActivationFailureSwallowed ==
    (ColdDone /\ CountKind(log, "activate_err") = 1) =>
        (cur.result = "ok" /\ CountKind(log, "poll") = 1)

\* the poll of a cold show ended without seeing the window
TimedOut == ColdDone /\ CountKind(log, "poll") = 1 /\ ~cur.saw

\* C13: a cold show(W) whose poll never sees W's window returns success, issues no
\* focus-by-title dispatch for W and runs discovery once and one of activation and spawn
\* once; and every poll ends.
C13_TimeoutIsNotAnError ==
    /\ [](TimedOut =>
            /\ cur.result = "ok"
            /\ CountKind(log, "focus") = 0
            /\ CountKind(log, "find_sni") = 1
            /\ CountKind(log, "activate") + CountKind(log, "spawn") = 1
            /\ CountKind(log, "activate_err") = 0)
    /\ [](pc = "poll" => elapsed <= ShowPollTicks)
    /\ ((pc = "poll") ~> (pc = "done"))

\* C13 witness: the poll ran to its deadline, the window is not there, show returned Ok
C13_Witness ==
    /\ TimedOut /\ cur.result = "ok" /\ elapsed = ShowPollTicks
    /\ CurTitle \notin visible /\ CurTitle \in pending

\* place of an effect in the sequence of a cold show
Phase(en) ==
    CASE en.e = "focus_mode" -> 1
      [] en.e = "hide_all" -> 2
      [] en.e = "close" -> 3
      [] en.e \in {"rule_float"} -> 4
      [] en.e \in {"rule_size"} -> 5
      [] en.e \in {"rule_move"} -> 6
      [] en.e = "find_sni" -> 7
      [] en.e \in {"activate", "activate_err", "spawn"} -> 8
      [] en.e = "poll" -> 9
      [] en.e = "focus" -> 10
      [] OTHER -> 11

ColdCommand ==
    /\ pc \in {"discover", "activate", "poll", "done", "panicked"}
    /\ cur.op \in {"show", "toggle"} /\ ~cur.wasVisible

C15_HidePathFrame ==
    /\ \A t \in TitlesOf(cfg) \cup {"Firefox"} :
          LET w == hide(Fresh, t)
          IN  /\ w.kw = kw
              /\ CountKind(w.log, "focus_mode") = 0
              /\ Count(w.log, "close", t) = IF t \in visible THEN 1 ELSE 0
              /\ Len(w.log) = IF t \in visible THEN 1 ELSE 0
    /\ \A order \in Orders, ex \in Names \cup {NoName} :
          LET w == hide_all(Fresh, cfg, order, ex)
          IN  /\ w.kw.no_warps = kw.no_warps
              /\ IF ex = NoName
                 THEN /\ w.kw.follow_mouse = "1" /\ w.kw.float_switch_override_focus = "1"
                      /\ Count(w.log, "focus_mode", "default") = 1
                 ELSE /\ w.kw = kw
                      /\ CountKind(w.log, "focus_mode") = 0
    /\ (pc = "done" /\ cur.op = "hide_all") =>
          (DefaultMode /\ Count(log, "focus_mode", "default") = 1 /\ visible \cap TitlesOf(cfg) = {})
    /\ WarmShowDone => CountKind(log, "focus_mode") = 0

\* C15 witness: the hide-all command closed a window shown in show mode: the default mode
\* is back and cursor:no_warps is still "1"
C15_Witness ==
    /\ pc = "done" /\ cur.op = "hide_all" /\ CountKind(log, "close") >= 1
    /\ DefaultMode /\ kw.no_warps = "1"

\* C18: the flag is false initially; a handled active-window-changed event leaves it true
\* exactly when the event carries a configured widget title (false for another title and
\* for no window data); no other step, workspace-changed handlers and their hide_all
\* included, changes it.  So the flag always tells whether the most recently handled
\* active-window-changed event carried a widget title.
C18_FlagFollowsLastActiveWindow ==
    /\ active = FALSE
    /\ [][IF lastEv.kind # "active" /\ lastEv'.kind = "active"
          THEN active' = (lastEv'.some /\ lastEv'.title \in TitlesOf(cfg))
          ELSE active' = active]_vars

\* C18 witness: a workspace-changed event found the flag set and ran hide_all(None); the
\* default focus mode is in force and the flag is still set
C18_Witness ==
    /\ lastEv.kind = "workspace" /\ lastEv.flagBefore /\ lastEv.hideAlls = 1 /\ active
    /\ visible = {} /\ DefaultMode

\* the widgets warm_up is done with, in its order
WarmedCount == CountKind(log, "rule_unset")

\* the entries of one widget of warm_up, from position i: the off-screen rule, the spawn,
\* then either the window seen and closed or the timeout, then the rule unset
WarmBlockAt(i) ==
    LET t == log[i].t
    IN  /\ log[i].e = "rule_offscreen"
        /\ i + 1 <= Len(log) => log[i + 1] = Entry("spawn", t, 0, 0)
        /\ i + 2 <= Len(log) =>
              \/ /\ log[i + 2] = Entry("poll_seen", t, 0, 0)
                 /\ i + 4 <= Len(log)
                 /\ log[i + 3] = Entry("close", t, 0, 0)
                 /\ log[i + 4] = Entry("rule_unset", t, 0, 0)
                 /\ i + 5 <= Len(log) => log[i + 5].e = "rule_offscreen"
              \/ /\ log[i + 2] = Entry("poll_timeout", t, 0, 0)
                 /\ i + 3 <= Len(log)
                 /\ log[i + 3] = Entry("rule_unset", t, 0, 0)
                 /\ i + 4 <= Len(log) => log[i + 4].e = "rule_offscreen"

WarmUpAsClaimed ==
    /\ warm.runs <= 1
    /\ pc = "idle" <=> warm.phase = "done"
    /\ lastEv # NoEvent => warm.phase = "done"
    /\ Len(log) >= 1 => log[1].e = "rule_offscreen"
    /\ \A i \in 1..Len(log) : log[i].e = "rule_offscreen" => WarmBlockAt(i)
    /\ \A i \in 1..Len(log) : log[i].e = "close" => (i > 1 /\ log[i - 1].e = "poll_seen")
    /\ CountKind(log, "rule_offscreen") <= Cardinality(Names)
    /\ warm.phase = "done" =>
          /\ warm.runs = 1
          /\ CountKind(log, "rule_offscreen") = Cardinality(Names)
          /\ CountKind(log, "spawn") = Cardinality(Names)
          /\ WarmedCount = Cardinality(Names)
          /\ \A t \in TitlesOf(cfg) :
                Count(log, "rule_unset", t) = Cardinality({n \in Names : cfg[n].title = t})

\* C16: warm_up runs once and is over before any handler runs; for each widget it injects
\* the off-screen rule, spawns, polls, closes the window only when a poll saw it, and then
\* unsets the rule, also after a timeout; every widget is warmed whatever the others did,
\* and the listener does start.
C16_WarmUpBeforeReactor ==
    /\ []WarmUpAsClaimed
    /\ <>(warm.phase = "done")

\* C16 witness: a widget never appeared, a later one did and was closed, every rule was
\* unset, the listener started and a handler has run
C16_Witness ==
    /\ warm.phase = "done" /\ lastEv.kind = "active"
    /\ \E i, j \in 1..Len(log) : i < j /\ log[i].e = "poll_timeout" /\ log[j].e = "poll_seen"
    /\ WarmedCount = Cardinality(Names)

BothDone == \A h \in Runs : hs.run[h].pc = "done"
BothNonWidget == \A h \in Runs : ~IsWidgetEvent(hs.run[h].data, cfg)

\* C17: when two active-window-changed handlers for non-widget titles run interleaved
\* with the flag set, exactly one of them gets true from its swap and calls hide_all(None)
\* once, the other calls nothing, and the flag ends cleared; with the flag unset neither
\* calls it.  At no moment have both got true.
C17_SwapRaceFree ==
    (hs # HsOff /\ BothNonWidget) =>
        /\ ~(hs.run[1].old /\ hs.run[2].old)
        /\ hs.run[1].hid + hs.run[2].hid <= 1
        /\ BothDone =>
              /\ ~active
              /\ hs.run[1].hid + hs.run[2].hid = IF hs.flag0 THEN 1 ELSE 0
              /\ \A h \in Runs : hs.run[h].hid = IF hs.run[h].old THEN 1 ELSE 0
              /\ hs.flag0 => (hs.run[1].old # hs.run[2].old)

\* C17 witness: both handlers had tested their titles before either swapped; the second
\* one got true and hid a visible window, the first got false
C17_Witness ==
    /\ hs # HsOff /\ BothNonWidget /\ BothDone /\ hs.flag0
    /\ hs.run[1].seen /\ hs.run[2].seen
    /\ hs.run[2].hid = 1 /\ hs.run[1].hid = 0 /\ ~active
    /\ hs.run[1].data.title = "Firefox" /\ hs.run[2].data.title = "Firefox"

ShowMode == kw.follow_mouse = "2" /\ kw.float_switch_override_focus = "0"

\* a command on another widget than the one visible at the start has closed that one,
\* seen its own window and returned
SwitchedDone == wm # WmOff /\ ColdDone /\ cur.saw /\ CurTitle # wm.first

\* C19, as stated: when A is visible and focused with the flag set and a show(B) or
\* toggle(B) closes A and opens B, then however the daemon's handling of the resulting
\* active-window-changed events interleaves with the command, the command ends with B
\* visible and the show focus mode in force.  Refuted: the event of A's closing finds the
\* flag set and runs hide_all(None).
C19_SwitchNotUndone ==
    SwitchedDone => (CurTitle \in visible /\ ShowMode)

NoWidgetVisible == visible \cap TitlesOf(cfg) = {}

\* C20, as stated: whenever a show, toggle or hide_all command has returned and no
\* configured widget's window is visible, the default focus mode is in force.  Refuted by
\* a show whose window did not appear: it returns with the show mode in force.
C20_FocusModeFollowsVisibility ==
    (pc = "done" /\ NoWidgetVisible) => DefaultMode

\* C20, amended: whenever a hide_all command has returned, no configured widget's window
\* is visible and the default focus mode is in force; whenever the hide branch of
\* toggle(W) has returned, W's window is not visible and the default mode is in force;
\* the focus mode is always one of the two modes.  (A show that returns without its
\* window leaves the show mode in force.)
C20_HidePathsRestoreDefault ==
    /\ (pc = "done" /\ cur.op = "hide_all") => (NoWidgetVisible /\ DefaultMode)
    /\ (pc = "done" /\ cur.op = "toggle" /\ cur.wasVisible) =>
          (CurTitle \notin visible /\ DefaultMode)
    /\ DefaultMode \/ ShowMode

\* C20 witness: the hide-all command returned after a show that had left the show mode
\* in force with no window: nothing was closed, the default mode is back
C20_Witness ==
    /\ pc = "done" /\ cur.op = "hide_all" /\ CountKind(log, "close") = 0
    /\ NoWidgetVisible /\ DefaultMode /\ kw.no_warps = "1" /\ pending # {}

====
